---- MODULE Spec2Model ----
(***************************************************************************)
(* Model of the section-generation and analysis services of                *)
(* insight-response-gen:                                                   *)
(*   OpenAIService            src/src/lib/services/openai-service.ts       *)
(*   DocumentAnalyzerService  src/unnamed/part_000                         *)
(*                                                                         *)
(* JavaScript is single-threaded: a handler runs from one await to the     *)
(* next without interruption.  Every action below is one such run: the     *)
(* synchronous start of a call up to its first await, the continuation     *)
(* after the fetch settles, the continuation after one stream read         *)
(* settles, and so on.  The server's answers and the behaviour of the      *)
(* caller's callbacks are inputs, drawn with \E.                           *)
(***************************************************************************)
EXTENDS Naturals, Sequences, FiniteSets, TLC

(***************************************************************************)
(* Bounds of the model.                                                    *)
(***************************************************************************)
MaxCalls == 3
MaxLines == 2
MaxRuns == 3
MaxProse == 1
LongStream == 52

(***************************************************************************)
(* Program constants.                                                      *)
(***************************************************************************)
AssumedChunks == 50
ProgressCap == 95
ProgressDone == 100
MinContentLength == 50
ExtractedProgress == 10

None == "<undefined>"

DisabledMsg == "AI generation is disabled in configuration"
ApiErrorMsg == "OpenAI API error: 500 Internal Server Error"
NoBodyMsg == "No response body received"
AbortMsg == "The user aborted a request."
NetworkMsg == "Failed to fetch"
CallbackMsg == "callback threw"
NoContentMsg == "No analysis content received from OpenAI"
InvalidJsonMsg == "Invalid JSON response from analysis"
SyntaxMsg == "Unexpected token in JSON"
EmptyMsg == "Document content is empty"
TooShortMsg == "Document content is too short for meaningful analysis"
ReadFailedMsg == "Failed to read text file"
PdfMsg == "PDF text extraction not implemented yet"
DocxMsg == "DOCX text extraction not implemented yet"
UnsupportedMsg == "Unsupported file type"
PlaceholderPrefix == "Error generating content: "
AnalysisFailedPrefix == "Document analysis failed: "

DirectSections == {"s1"}
BatchSections == <<"s1", "s2">>
StreamDeltas == <<"a", "b">>

VARIABLES
    service,          \* which service instance the behaviour is about
    enabled,          \* config.features.enableAIGeneration of the instance
    abortController,  \* this.abortController: 0 is undefined, c the controller call c created
    aborted,          \* the controllers whose signal is aborted
    calls,            \* one record per call made on the instance, in call order
    batch,            \* the generateMultipleSections call, if any
    sync,             \* the last synchronous call on the instance and what it returned
    ui                \* the state of the ResponseGenerator component using the instance

vars == <<service, enabled, abortController, aborted, calls, batch, sync, ui>>

CallIds == 1..Len(calls)

Min(a, b) == IF a <= b THEN a ELSE b

Last(s) == s[Len(s)]

(***************************************************************************)
(* Progress events (GenerationProgress / AnalysisProgress).                *)
(***************************************************************************)
Event(st, p, c, e) == [status |-> st, progress |-> p, content |-> c, error |-> e]

(* Callback behaviour during one run: which invocations throw. *)
Throws == [chunk : BOOLEAN, generating : BOOLEAN, completed : BOOLEAN, error : BOOLEAN]

NoThrow == [chunk |-> FALSE, generating |-> FALSE, completed |-> FALSE, error |-> FALSE]

(* The behaviours that differ in the invocations one run can make. *)
ThrowsAtStart == {t \in Throws : ~t.chunk /\ ~t.completed}

ThrowsAtRead == {t \in Throws : ~t.generating}

ThrowsAtCatch == {t \in Throws : ~t.chunk /\ ~t.generating /\ ~t.completed}

(***************************************************************************)
(* Lines of the response stream, as the decoder tells them apart:          *)
(* prefix: the line starts with "data: "; done: the payload is "[DONE]";   *)
(* json: the payload parses as JSON; content: choices[0].delta.content.    *)
(***************************************************************************)
Line(p, d, j, c) == [prefix |-> p, done |-> d, json |-> j, content |-> c]

DataLine(c) == Line(TRUE, FALSE, TRUE, c)

DoneLine == Line(TRUE, TRUE, FALSE, None)

BadJsonLine == Line(TRUE, FALSE, FALSE, None)

BlankLine == Line(FALSE, FALSE, FALSE, None)

Deltas == {StreamDeltas[i] : i \in DOMAIN StreamDeltas}

Lines == {DataLine(c) : c \in Deltas \cup {"", None}} \cup {DoneLine, BadJsonLine, BlankLine}

RECURSIVE SeqsUpTo(_, _)
SeqsUpTo(S, n) ==
    IF n = 0 THEN {<<>>}
    ELSE LET shorter == SeqsUpTo(S, n - 1)
         IN  shorter \cup {Append(s, x) : s \in {t \in shorter : Len(t) = n - 1}, x \in S}

Reads == SeqsUpTo(Lines, MaxLines)

RECURSIVE Concat(_)
Concat(ss) == IF ss = <<>> THEN "" ELSE Head(ss) \o Concat(Tail(ss))

(* What the server can have sent so far: the stream's deltas, in order. *)
StreamPrefixes == {Concat(SubSeq(StreamDeltas, 1, n)) : n \in 0..Len(StreamDeltas)}


(***************************************************************************)
(* One call on the instance.  pc is the await the call is suspended at     *)
(* ("fetch", "read", "json") or how it settled ("resolved", "rejected");    *)
(* "gone" is a settled call of which nothing is kept any more.             *)
(* events and chunks are the arguments onProgress and onChunk were invoked *)
(* with, in order.  The other fields record what happened to the call:     *)
(* requested (a network request was issued), sent (the text of the delta   *)
(* frames the server delivered), doneSent (the server delivered a [DONE]   *)
(* frame), threw (a callback invocation threw and the exception had an     *)
(* effect), cancelSeen (a cancel ran while the call has been waiting),     *)
(* bidx (the position in the batch of the section the call generates, 0    *)
(* if none), wire and pos (the response stream the                         *)
(* server answers with and the number of its bytes delivered so far),      *)
(* aligned (every read so far ended at the end of a line), doc (the        *)
(* documentContent argument of analyzeDocument), reply (the body           *)
(* response.json() delivered).  The locals of a call and the record of     *)
(* its callbacks are kept until the next call starts on the instance, and  *)
(* so is order, the callbacks of the call in the order of their            *)
(* invocation ("onProgress" or "onChunk" for each), and file, the          *)
(* analyzeDocumentFromFile call that made this analyzeDocument call (0 if  *)
(* none; the record of an analyzeDocumentFromFile call has kind "file",    *)
(* the MIME type of the file as sec, and pc "extract" or "analyze" while   *)
(* it awaits the extraction or its analyzeDocument call), and              *)
(* so is the mapping a finished batch returned.                            *)
(***************************************************************************)
NoReply == [ok |-> FALSE, content |-> <<>>]

NoSync == [fn |-> None, arg |-> <<>>, value |-> [isValid |-> FALSE, error |-> None]]

NewCall(kind, sec, bidx) ==
    [kind |-> kind, sec |-> sec, bidx |-> bidx, pc |-> "start", requested |-> FALSE,
     accumulatedContent |-> "", chunkCount |-> 0,
     events |-> <<>>, chunks |-> <<>>, result |-> None, error |-> None,
     sent |-> "", doneSent |-> FALSE, threw |-> FALSE, cancelSeen |-> FALSE,
     wire |-> 0, pos |-> 0, aligned |-> TRUE, doc |-> <<>>, reply |-> NoReply,
     order |-> <<>>, file |-> 0]

(* What is left of a settled call once the next call starts. *)
Forget(call) ==
    [NewCall(call.kind, call.sec, call.bidx) EXCEPT !.pc = "gone"]

Settled(call) == call.pc \in {"resolved", "rejected", "gone"}

Waiting(call) == call.pc \in {"fetch", "read", "json"}

(* The world a handler reads and writes: the handle, the aborted signals, the calls. *)
World == [h |-> abortController, ab |-> aborted, cs |-> calls]

Earlier(cs) == [c \in DOMAIN cs |-> IF Settled(cs[c]) THEN Forget(cs[c]) ELSE cs[c]]

DisabledNever(flag) == FALSE

(* if (!this.config.features.enableAIGeneration) throw ... *)
Disabled(flag) == ~flag

AbortPreviousAndNext(w) == IF w.h # 0 THEN w.ab \cup {w.h, w.h + 1} ELSE w.ab

(* if (this.abortController) this.abortController.abort() *)
AbortPrevious(w) == IF w.h # 0 THEN w.ab \cup {w.h} ELSE w.ab

InterruptedNever(c) == FALSE

(* The request of call c carries the signal of the controller the call    *)
(* created: once that signal is aborted the pending fetch or read rejects. *)
Interrupted(c) == c \in aborted

AccumulateReplace(acc, content) == content

AccumulatePrepend(acc, content) == content \o acc

(* accumulatedContent += content *)
Accumulate(acc, content) == acc \o content

CalledFirst(order, cb) == <<cb>> \o order

(* onProgress?.(...) / onChunk?.(...): the invocation follows all earlier ones. *)
Called(order, cb) == Append(order, cb)

(* The number of invocations of cb among the first p callbacks of a call. *)
CountOf(order, cb, p) == Cardinality({q \in 1..p : order[q] = cb})

(***************************************************************************)
(* Math.floor((chunkCount / 50) * 100) in IEEE-754 double arithmetic: the  *)
(* quotient is rounded before it is multiplied, and below the cap the      *)
(* result differs from floor(100 * chunkCount / 50) at chunkCount = 29     *)
(* only, where 0.58 * 100 is 57.99999999999999.                            *)
(***************************************************************************)
FloorPercent(chunkCount) ==
    IF chunkCount = 29 THEN 57 ELSE (chunkCount * 100) \div AssumedChunks

(* Math.min(95, Math.floor((chunkCount / 50) * 100)) *)
Progress(chunkCount) == Min(ProgressCap, FloorPercent(chunkCount))

(***************************************************************************)
(* catch (error) { onProgress?.({status: 'error', ...}); throw error }     *)
(* of generateSection.  An onProgress that throws here replaces the error. *)
(***************************************************************************)
CatchGenerate(call, msg, thr) ==
    [call EXCEPT !.events = Append(@, Event("error", 0, None, msg)),
                 !.order = Called(@, "onProgress"),
                 !.pc = "rejected",
                 !.error = IF thr.error THEN CallbackMsg ELSE msg,
                 !.threw = @ \/ thr.error, !.cancelSeen = FALSE]

(***************************************************************************)
(* generateSection up to its first await: the flag check, the abort of the *)
(* previous request, the new controller, the initial progress event and    *)
(* the fetch.  The result is the world after this run.                     *)
(***************************************************************************)
GenerateSectionStart(w, sec, bidx, thr) ==
    LET id == Len(w.cs) + 1
        c0 == NewCall("generate", sec, bidx)
        c1 == [c0 EXCEPT !.events = <<Event("generating", 0, None, None)>>,
                         !.order = Called(@, "onProgress")]
        old == Earlier(w.cs)
    IN  IF Disabled(enabled)
        THEN [w EXCEPT !.cs = Append(old, [c0 EXCEPT !.pc = "rejected", !.error = DisabledMsg])]
        ELSE IF thr.generating
             THEN [h |-> 0, ab |-> AbortPrevious(w),
                   cs |-> Append(old, CatchGenerate([c1 EXCEPT !.threw = TRUE], CallbackMsg, thr))]
             ELSE [h |-> id, ab |-> AbortPrevious(w),
                   cs |-> Append(old, [c1 EXCEPT !.pc = "fetch", !.requested = TRUE])]

(***************************************************************************)
(* The body of the for loop over the lines of one read, for one line.      *)
(* d.out is "more" while the loop goes on, "resolved" after the return at  *)
(* [DONE], "thrown" when the completed callback threw out of the try.      *)
(***************************************************************************)
DecodeLine(d, line, thr) ==
    IF d.out # "more" \/ ~line.prefix THEN d
    ELSE IF line.done
    THEN LET d1 == [d EXCEPT !.events =
                        Append(@, Event("completed", ProgressDone, d.accumulatedContent, None)),
                             !.order = Called(@, "onProgress")]
         IN  IF thr.completed
             THEN [d1 EXCEPT !.out = "thrown", !.threw = TRUE]
             ELSE [d1 EXCEPT !.out = "resolved"]
    ELSE IF ~line.json \/ line.content \in {None, ""} THEN d
    ELSE LET d1 == [d EXCEPT !.accumulatedContent = Accumulate(@, line.content),
                             !.chunkCount = @ + 1,
                             !.chunks = Append(@, line.content),
                             !.order = Called(@, "onChunk")]
         IN  IF thr.chunk
             THEN [d1 EXCEPT !.threw = TRUE]
             ELSE [d1 EXCEPT !.events = Append(@, Event("generating", Progress(d1.chunkCount),
                                                        d1.accumulatedContent, None)),
                             !.order = Called(@, "onProgress")]

RECURSIVE DecodeLines(_, _, _)
DecodeLines(d, lines, thr) ==
    IF lines = <<>> THEN d
    ELSE DecodeLines(DecodeLine(d, Head(lines), thr), Tail(lines), thr)

(* The text of the delta frames of one read, up to its [DONE] frame. *)
RECURSIVE FrameText(_)
FrameText(lines) ==
    IF lines = <<>> \/ Head(lines) = DoneLine THEN ""
    ELSE (IF Head(lines).prefix /\ Head(lines).json /\ Head(lines).content # None
          THEN Head(lines).content ELSE "") \o FrameText(Tail(lines))

HasDone(lines) == \E i \in DOMAIN lines : lines[i] = DoneLine

(***************************************************************************)
(* The continuation of generateSection after one reader.read() delivered   *)
(* a chunk: decode, split into lines, handle every line.                   *)
(***************************************************************************)
AfterRead(call, lines, thr) ==
    LET d0 == [accumulatedContent |-> call.accumulatedContent, chunkCount |-> call.chunkCount,
               events |-> call.events, chunks |-> call.chunks, threw |-> call.threw,
               order |-> call.order, out |-> "more"]
        d  == DecodeLines(d0, lines, thr)
        c1 == [call EXCEPT !.accumulatedContent = d.accumulatedContent,
                           !.chunkCount = d.chunkCount,
                           !.events = d.events, !.chunks = d.chunks, !.threw = d.threw,
                           !.order = d.order,
                           !.sent = @ \o FrameText(lines),
                           !.doneSent = HasDone(lines)]
    IN  CASE d.out = "more" -> c1
          [] d.out = "resolved" -> [c1 EXCEPT !.pc = "resolved", !.result = d.accumulatedContent,
                                              !.cancelSeen = FALSE]
          [] d.out = "thrown" -> CatchGenerate(c1, CallbackMsg, thr)

(***************************************************************************)
(* The bytes of a response stream.  A byte of the model stands for a run   *)
(* of bytes of the real stream that a read boundary can fall next to:      *)
(* "d" "p" are the two halves of the prefix "data: ", "{" and "}" the JSON *)
(* text before and after the delta content, "[" "]" the two halves of      *)
(* "[DONE]", "a" "b" one-byte characters of content, "e1" "e2" the two     *)
(* bytes of the character "E", "x" any other text, "nl" the newline.       *)
(* A frame is one line of the stream as the server writes it.              *)
(***************************************************************************)
Frame(kind, content) == [kind |-> kind, content |-> content]

Utf8(ch) == IF ch = "E" THEN <<"e1", "e2">> ELSE <<ch>>

RECURSIVE Flatten(_)
Flatten(ss) == IF ss = <<>> THEN <<>> ELSE Head(ss) \o Flatten(Tail(ss))

Encode(frame) ==
    CASE frame.kind = "delta" ->
            <<"d", "p", "{">> \o Flatten([i \in DOMAIN frame.content |-> Utf8(frame.content[i])])
                              \o <<"}", "nl">>
      [] frame.kind = "done" -> <<"d", "p", "[", "]", "nl">>
      [] frame.kind = "blank" -> <<"nl">>
      [] frame.kind = "no_prefix" -> <<"x", "p", "{", "b", "}", "nl">>
      [] frame.kind = "bad_json" -> <<"d", "p", "{", "a", "nl">>
      [] frame.kind = "no_delta" -> <<"d", "p", "{", "}", "nl">>

(* The response streams a server answers with. *)
Wires ==
    << <<Frame("delta", <<"a">>), Frame("blank", <<>>), Frame("delta", <<"b">>),
         Frame("blank", <<>>), Frame("done", <<>>), Frame("blank", <<>>)>>,
       <<Frame("delta", <<"a">>), Frame("bad_json", <<>>), Frame("no_prefix", <<>>),
         Frame("no_delta", <<>>), Frame("delta", <<"b">>), Frame("done", <<>>)>>,
       <<Frame("delta", <<"a", "E">>), Frame("done", <<>>)>>,
       <<Frame("no_delta", <<>>), Frame("delta", <<"b">>), Frame("bad_json", <<>>)>> >>

WireBytes(w) == Flatten([i \in DOMAIN Wires[w] |-> Encode(Wires[w][i])])

(***************************************************************************)
(* decoder.decode(value): every read is decoded on its own, so a byte of a *)
(* two-byte character that arrives without the other one becomes the       *)
(* replacement character "?".                                              *)
(***************************************************************************)
RECURSIVE TextDecode(_)
TextDecode(bytes) ==
    IF bytes = <<>> THEN <<>>
    ELSE IF Head(bytes) = "e1" /\ Len(bytes) >= 2 /\ bytes[2] = "e2"
    THEN <<"E">> \o TextDecode(SubSeq(bytes, 3, Len(bytes)))
    ELSE IF Head(bytes) \in {"e1", "e2"} THEN <<"?">> \o TextDecode(Tail(bytes))
    ELSE <<Head(bytes)>> \o TextDecode(Tail(bytes))

(* chunk.split('\n') *)
RECURSIVE SplitLines(_)
SplitLines(chunk) ==
    IF \A i \in DOMAIN chunk : chunk[i] # "nl" THEN <<chunk>>
    ELSE LET i == CHOOSE k \in DOMAIN chunk :
                      chunk[k] = "nl" /\ \A j \in 1..(k - 1) : chunk[j] # "nl"
         IN  <<SubSeq(chunk, 1, i - 1)>> \o SplitLines(SubSeq(chunk, i + 1, Len(chunk)))

StartsWithDataLoosely(line) == Len(line) >= 2 /\ line[2] = "p"

(* line.startsWith('data: ') *)
StartsWithData(line) == Len(line) >= 2 /\ line[1] = "d" /\ line[2] = "p"

ContentChars == {"a", "b", "E", "?"}

(* JSON.parse(data) and parsed.choices?.[0]?.delta?.content *)
JsonParseDelta(data) ==
    IF /\ Len(data) >= 2
       /\ data[1] = "{"
       /\ data[Len(data)] = "}"
       /\ \A i \in 2..(Len(data) - 1) : data[i] \in ContentChars
    THEN [json |-> TRUE,
          content |-> IF Len(data) = 2 THEN None ELSE Concat(SubSeq(data, 2, Len(data) - 1))]
    ELSE [json |-> FALSE, content |-> None]

(* One line of a decoded read, as the loop body tells lines apart. *)
ParseLine(line) ==
    IF ~StartsWithData(line) THEN BlankLine
    ELSE LET data == SubSeq(line, 3, Len(line))
         IN  IF data = <<"[", "]">> THEN DoneLine
             ELSE IF ~JsonParseDelta(data).json THEN BadJsonLine
             ELSE DataLine(JsonParseDelta(data).content)

(* const lines = decoder.decode(value).split('\n') *)
ReadLines(bytes) ==
    LET lines == SplitLines(TextDecode(bytes))
    IN  [i \in DOMAIN lines |-> ParseLine(lines[i])]


(***************************************************************************)
(* DocumentAnalyzerService.analyzeDocument.                                *)
(* catch (error) { onProgress?.({status: 'error', ...});                   *)
(*                 throw new Error(`Document analysis failed: ...`) }      *)
(***************************************************************************)
CatchAnalyze(call, msg, thr) ==
    [call EXCEPT !.events = Append(@, Event("error", 0, None, msg)),
                 !.order = Called(@, "onProgress"),
                 !.pc = "rejected",
                 !.error = IF thr.error THEN CallbackMsg ELSE AnalysisFailedPrefix \o msg,
                 !.threw = @ \/ thr.error, !.cancelSeen = FALSE]

(***************************************************************************)
(* Document contents.  A string is given by the runs of equal characters   *)
(* it consists of: " " is a whitespace character, "x" any other one.       *)
(***************************************************************************)
Run(ch, n) == [ch |-> ch, n |-> n]

RunChoices ==
    {Run(" ", 1), Run("x", 1), Run("x", MinContentLength - 1), Run("x", MinContentLength)}

Docs == SeqsUpTo(RunChoices, MaxRuns)

(* The documents the services are called with directly. *)
SampleDocs == {<<>>, <<Run(" ", 1)>>, <<Run("x", 1)>>, <<Run("x", MinContentLength)>>}

(* content.length *)
RECURSIVE Length(_)
Length(content) == IF content = <<>> THEN 0 ELSE Head(content).n + Length(Tail(content))

RECURSIVE TrimStart(_)
TrimStart(content) ==
    IF content # <<>> /\ Head(content).ch = " " THEN TrimStart(Tail(content)) ELSE content

RECURSIVE TrimEnd(_)
TrimEnd(content) ==
    IF content # <<>> /\ Last(content).ch = " "
    THEN TrimEnd(SubSeq(content, 1, Len(content) - 1))
    ELSE content

(* content.trim() *)
Trim(content) == TrimEnd(TrimStart(content))

Validation(isValid, error) == [isValid |-> isValid, error |-> error]

validateDocumentContentUntrimmed(content) ==
    IF Length(content) = 0 THEN Validation(FALSE, EmptyMsg)
    ELSE IF Length(content) < MinContentLength THEN Validation(FALSE, TooShortMsg)
    ELSE Validation(TRUE, None)

(* DocumentAnalyzerService.validateDocumentContent *)
validateDocumentContent(content) ==
    IF Length(content) = 0 \/ Length(Trim(content)) = 0 THEN Validation(FALSE, EmptyMsg)
    ELSE IF Length(Trim(content)) < MinContentLength THEN Validation(FALSE, TooShortMsg)
    ELSE Validation(TRUE, None)

(* analyzeDocument up to its first await. *)
AnalyzeDocumentStart(w, doc, thr) ==
    LET id == Len(w.cs) + 1
        c0 == [NewCall("analyze", "document", 0) EXCEPT !.doc = doc]
        c1 == [c0 EXCEPT !.events = <<Event("analyzing", 0, None, None)>>,
                         !.order = Called(@, "onProgress")]
        old == Earlier(w.cs)
    IN  IF Disabled(enabled)
        THEN [w EXCEPT !.cs = Append(old, [c0 EXCEPT !.pc = "rejected", !.error = DisabledMsg])]
        ELSE IF thr.generating
             THEN [h |-> id, ab |-> AbortPrevious(w),
                   cs |-> Append(old, CatchAnalyze([c1 EXCEPT !.threw = TRUE], CallbackMsg, thr))]
             ELSE [h |-> id, ab |-> AbortPrevious(w),
                   cs |-> Append(old, [c1 EXCEPT !.pc = "fetch", !.requested = TRUE])]

(* The continuation after the fetch: the status check, progress 50, response.json(). *)
AnalysisAfterFetch(call, resp, thr) ==
    CASE resp = "network_error" -> CatchAnalyze(call, NetworkMsg, thr)
      [] resp = "http_error" -> CatchAnalyze(call, ApiErrorMsg, thr)
      [] resp \in {"ok", "no_body"} ->
            LET c1 == [call EXCEPT !.events = Append(@, Event("analyzing", 50, None, None)),
                                   !.order = Called(@, "onProgress")]
            IN  IF thr.generating
                THEN CatchAnalyze([c1 EXCEPT !.threw = TRUE], CallbackMsg, thr)
                ELSE [c1 EXCEPT !.pc = "json"]

(***************************************************************************)
(* JSON values: strings, numbers (by their literal), lists, objects, and   *)
(* undefined for what a property access finds absent.                      *)
(***************************************************************************)
JStr(s) == [t |-> "string", s |-> s]

JNum(n) == [t |-> "number", n |-> n]

JList(items) == [t |-> "list", items |-> items]

JObj(f) == [t |-> "object", f |-> f]

Undefined == [t |-> "undefined"]

(* v?.k *)
Get(v, k) == IF v.t = "object" /\ k \in DOMAIN v.f THEN v.f[k] ELSE Undefined

Falsy(v) ==
    \/ v.t = "undefined"
    \/ v.t = "string" /\ v.s = ""
    \/ v.t = "number" /\ v.n = "0"

(* v || d *)
Or(v, d) == IF Falsy(v) THEN d ELSE v

(***************************************************************************)
(* The text of a reply.  "p" is a character of prose, "{" and "}" are      *)
(* braces, and "1" .. "4" each stand for the members of one JSON object,   *)
(* written without its outer braces.                                       *)
(***************************************************************************)
Stakeholder ==
    JObj([name |-> JStr("Ann"), role |-> JStr("CTO"), department |-> JStr("IT"),
          influence |-> JStr("High"), priorities |-> JList(<<JStr("Security")>>)])

Members ==
    [m \in {"1", "2", "3", "4"} |->
        CASE m = "1" -> [stakeholders |-> JList(<<Stakeholder>>),
                         winThemes |-> JObj([confidence |-> JNum("0.9")])]
          [] m = "2" -> [stakeholders |-> JList(<<JObj([name |-> JStr("Ann")])>>)]
          [] m = "3" -> [redFlags |-> JList(<<>>),
                         strategicIntelligence |-> JObj([confidence |-> JNum("0")])]
          [] m = "4" -> [stakeholders |-> JStr("none")]]

ObjectTexts == {<<"{", "}">>} \cup {<<"{", m, "}">> : m \in DOMAIN Members}

Prose == SeqsUpTo({"p", "{", "}"}, MaxProse)

Body(content) == [ok |-> TRUE, content |-> content]

(* The bodies response.json() can deliver: none that is JSON, or a reply   *)
(* whose content is prose, possibly an object, prose.                      *)
Bodies ==
    {NoReply} \cup {Body(pre \o obj \o post) :
                        pre \in Prose, obj \in ObjectTexts \cup {<<>>}, post \in Prose}

SampleBodies ==
    {NoReply, Body(<<>>), Body(<<"p">>), Body(<<"{", "p", "}">>), Body(<<"{", "1", "}">>)}

(* content.match(/\{[\s\S]*\}/): from the first "{" to the last "}", <<>> for null. *)
JsonMatch(content) ==
    LET opens == {i \in DOMAIN content : content[i] = "{"}
        closes == {i \in DOMAIN content : content[i] = "}"}
        first == CHOOSE i \in opens : \A j \in opens : i <= j
        last == CHOOSE i \in closes : \A j \in closes : j <= i
    IN  IF opens = {} \/ closes = {} THEN <<>>
        ELSE IF last < first THEN <<>>
        ELSE SubSeq(content, first, last)

(* JSON.parse(jsonMatch[0]) *)
JsonParse(text) ==
    IF text = <<"{", "}">> THEN [ok |-> TRUE, value |-> JObj(<<>>)]
    ELSE IF Len(text) = 3 /\ text[1] = "{" /\ text[3] = "}" /\ text[2] \in DOMAIN Members
    THEN [ok |-> TRUE, value |-> JObj(Members[text[2]])]
    ELSE [ok |-> FALSE, value |-> Undefined]

(* DocumentAnalyzerService.processAnalysis *)
processAnalysis(analysis) ==
    LET crm == Get(analysis, "criticalRequirementsMatrix")
        ec == Get(analysis, "evaluationCriteria")
        si == Get(analysis, "strategicIntelligence")
        wt == Get(analysis, "winThemes")
        empty == JList(<<>>)
        unspecified == JStr("Not specified")
    IN  JObj([criticalRequirementsMatrix |->
                  JObj([mandatory |-> Or(Get(crm, "mandatory"), empty),
                        desired |-> Or(Get(crm, "desired"), empty),
                        optional |-> Or(Get(crm, "optional"), empty),
                        hidden |-> Or(Get(crm, "hidden"), empty)]),
              evaluationCriteria |->
                  JObj([scoringMethodology |-> Or(Get(ec, "scoringMethodology"), unspecified),
                        criteria |-> Or(Get(ec, "criteria"), empty),
                        budgetIndicators |-> Or(Get(ec, "budgetIndicators"), unspecified),
                        riskFactors |-> Or(Get(ec, "riskFactors"), empty)]),
              strategicIntelligence |->
                  JObj([incumbentAdvantages |-> Or(Get(si, "incumbentAdvantages"), unspecified),
                        politicalLandscape |-> Or(Get(si, "politicalLandscape"), unspecified),
                        timelinePressures |-> Or(Get(si, "timelinePressures"), unspecified),
                        competitiveOpportunities |->
                            Or(Get(si, "competitiveOpportunities"), unspecified),
                        confidence |-> Or(Get(si, "confidence"), JNum("0.5"))]),
              winThemes |->
                  JObj([primaryValueDrivers |-> Or(Get(wt, "primaryValueDrivers"), empty),
                        painPoints |-> Or(Get(wt, "painPoints"), empty),
                        keyDifferentiators |-> Or(Get(wt, "keyDifferentiators"), empty),
                        requiredProofPoints |-> Or(Get(wt, "requiredProofPoints"), empty),
                        confidence |-> Or(Get(wt, "confidence"), JNum("0.5"))]),
              redFlags |-> Or(Get(analysis, "redFlags"), empty),
              deadlines |-> Or(Get(analysis, "deadlines"), empty),
              stakeholders |-> Or(Get(analysis, "stakeholders"), empty)])

(***************************************************************************)
(* What response.json() delivered, by the test of the continuation that    *)
(* stops at it: the body is no JSON, the reply has no content, the content *)
(* holds no brace-delimited substring, the substring does not parse, or    *)
(* the analysis parses.                                                    *)
(***************************************************************************)
Replies == {"not_json", "no_content", "no_braces", "unparsable", "object"}

ReplyKind(body) ==
    IF ~body.ok THEN "not_json"
    ELSE IF body.content = <<>> THEN "no_content"
    ELSE IF JsonMatch(body.content) = <<>> THEN "no_braces"
    ELSE IF ~JsonParse(JsonMatch(body.content)).ok THEN "unparsable"
    ELSE "object"

AnalysisAfterJson(call, body, thr) ==
    LET reply == ReplyKind(body)
        c0 == [call EXCEPT !.reply = body]
    IN  CASE reply = "not_json" -> CatchAnalyze(c0, SyntaxMsg, thr)
          [] reply = "no_content" -> CatchAnalyze(c0, NoContentMsg, thr)
          [] reply = "no_braces" -> CatchAnalyze(c0, InvalidJsonMsg, thr)
          [] OTHER ->
                LET c1 == [c0 EXCEPT !.events = Append(@, Event("analyzing", 90, None, None)),
                                     !.order = Called(@, "onProgress")]
                    c2 == [c1 EXCEPT !.events =
                                 Append(@, Event("completed", ProgressDone, None, None)),
                                     !.order = Called(@, "onProgress")]
                IN  IF thr.generating
                    THEN CatchAnalyze([c1 EXCEPT !.threw = TRUE], CallbackMsg, thr)
                    ELSE IF reply = "unparsable" THEN CatchAnalyze(c1, SyntaxMsg, thr)
                    ELSE IF thr.completed
                    THEN CatchAnalyze([c2 EXCEPT !.threw = TRUE], CallbackMsg, thr)
                    ELSE [c2 EXCEPT !.pc = "resolved",
                                    !.result = processAnalysis(
                                                   JsonParse(JsonMatch(body.content)).value),
                                    !.cancelSeen = FALSE]

(***************************************************************************)
(* OpenAIService.buildPrompt.  A prompt is the text of the template after  *)
(* the two replacements (a sequence of words) and the blocks appended to   *)
(* it: `\n\n<heading>\n<body>` each.  The fields of the context are JSON   *)
(* values: a string, a list of strings, or undefined when absent.  The     *)
(* document index is given by the excerpt its lookup returns.              *)
(***************************************************************************)
Texts(s) == {Undefined, JStr(""), JStr(s)}

Items(a, b) == {Undefined, JList(<<>>), JList(<<a>>), JList(<<a, b>>)}

Contexts ==
    [rfpContent : Texts("R"), companyProfile : Texts("P"), requirements : Items("r1", "r2"),
     constraints : Items("c1", "c2"), targetAudience : Texts("T")]

Templates ==
    {[name |-> "Summary", promptTemplate |-> <<"Write", "{sectionType}">>],
     [name |-> "Overview",
      promptTemplate |-> <<"{templateName}", "{sectionType}", "{sectionType}">>]}

(* companyDocuments.getRelevantContentForRFP(rfpContent, sectionType) *)
Excerpts == {"", "X"}

(* String.prototype.replace with a string pattern: the first occurrence only. *)
RECURSIVE Replace(_, _, _)
Replace(words, pattern, by) ==
    IF words = <<>> THEN <<>>
    ELSE IF Head(words) = pattern THEN <<by>> \o Tail(words)
    ELSE <<Head(words)>> \o Replace(Tail(words), pattern, by)

(* items.map(item => `- ${item}`).join('\n') *)
RECURSIVE Bullets(_)
Bullets(items) ==
    IF items = <<>> THEN ""
    ELSE "- " \o Head(items) \o (IF Len(items) > 1 THEN "\n" ELSE "") \o Bullets(Tail(items))

AppendBlockFirst(prompt, heading, body) ==
    [prompt EXCEPT !.blocks = <<[heading |-> heading, body |-> body]>> \o @]

(* prompt += `\n\n<heading>\n${body}` *)
AppendBlock(prompt, heading, body) ==
    [prompt EXCEPT !.blocks = Append(@, [heading |-> heading, body |-> body])]

(* context.requirements && context.requirements.length > 0 *)
NonEmptyList(v) == ~Falsy(v) /\ Len(v.items) > 0

buildPrompt(sectionType, context, template, relevantContent) ==
    LET p0 == [base |-> Replace(Replace(template.promptTemplate, "{sectionType}", sectionType),
                                "{templateName}", template.name),
               blocks |-> <<>>]
        p1 == IF ~Falsy(context.rfpContent)
              THEN AppendBlock(p0, "RFP Content:", context.rfpContent.s) ELSE p0
        p2 == IF ~Falsy(context.companyProfile)
              THEN AppendBlock(p1, "Company Profile:", context.companyProfile.s) ELSE p1
        p3 == IF NonEmptyList(context.requirements)
              THEN AppendBlock(p2, "Key Requirements:", Bullets(context.requirements.items))
              ELSE p2
        p4 == IF NonEmptyList(context.constraints)
              THEN AppendBlock(p3, "Constraints:", Bullets(context.constraints.items))
              ELSE p3
        p5 == IF ~Falsy(context.targetAudience)
              THEN AppendBlock(p4, "Target Audience:", context.targetAudience.s) ELSE p4
    IN  IF ~Falsy(context.rfpContent) /\ relevantContent # ""
        THEN AppendBlock(p5, "Relevant Company Information:", relevantContent)
        ELSE p5

(***************************************************************************)
(* OpenAIService.generateMultipleSections: the body of the loop for one    *)
(* section.  Placeholder is the string recorded for a failed section.      *)
(***************************************************************************)
Put(results, sec, value) ==
    [k \in DOMAIN results \cup {sec} |-> IF k = sec THEN value ELSE results[k]]

Placeholder(msg) == PlaceholderPrefix \o msg

OnSectionErrorSkip(results, sec, msg) == results

OnSectionErrorBare(results, sec, msg) == Put(results, sec, msg)

(* catch (error) { results[sectionType] = `Error generating content: ...` } *)
OnSectionError(results, sec, msg) == Put(results, sec, Placeholder(msg))

SectionSettledEarly(call) == TRUE

(* const content = await this.generateSection(...) *)
SectionSettled(call) == Settled(call)

(***************************************************************************)
(* The ResponseGenerator component, as far as Generate All goes: the state *)
(* of its sections, isGeneratingAll, and where handleGenerateAllSections   *)
(* stands (pc is "awaiting" while it awaits generateMultipleSections).     *)
(* attached tells that the calls on the instance are made by the handlers  *)
(* of the component, with its callbacks; the callbacks of the handler of a *)
(* single section are not part of the model.                               *)
(***************************************************************************)
UiSections == {BatchSections[i] : i \in DOMAIN BatchSections}

Blank == [completed |-> FALSE, generating |-> FALSE, content |-> "", error |-> ""]

Detached ==
    [attached |-> FALSE, pc |-> "idle", isGeneratingAll |-> FALSE,
     sections |-> [s \in UiSections |-> Blank]]

Mounted == [Detached EXCEPT !.attached = TRUE]

(* (progress) => setSections(...), for the section progress.sectionId names *)
onProgress(section, progress) ==
    [section EXCEPT !.generating = (progress.status = "generating"),
                    !.completed = (progress.status = "completed"),
                    !.content = IF progress.content \in {None, ""} THEN @ ELSE progress.content,
                    !.error = IF progress.error \in {None, ""} THEN "" ELSE progress.error]

(* (sectionId, chunk) => setSections(...), for the section sectionId names *)
onChunk(section, chunk) == [section EXCEPT !.content = @ \o chunk]

(* The callbacks call invoked after its first p ones, applied to its section. *)
RECURSIVE ApplyCallbacks(_, _, _)
ApplyCallbacks(section, call, p) ==
    IF p >= Len(call.order) THEN section
    ELSE ApplyCallbacks(
             IF call.order[p + 1] = "onProgress"
             THEN onProgress(section, call.events[CountOf(call.order, "onProgress", p + 1)])
             ELSE onChunk(section, call.chunks[CountOf(call.order, "onChunk", p + 1)]),
             call, p + 1)

(***************************************************************************)
(* The state of the component after a run of the service that took the     *)
(* calls from cs to cs2: the callbacks the run invoked for the sections of *)
(* the batch have updated the sections.                                    *)
(***************************************************************************)
Render(u, cs, cs2) ==
    IF ~u.attached THEN u
    ELSE [u EXCEPT !.sections =
            [s \in UiSections |->
                LET made == {c \in DOMAIN cs2 : /\ cs2[c].bidx > 0
                                                /\ cs2[c].sec = s
                                                /\ cs2[c].pc # "gone"}
                IN  IF made = {} THEN u.sections[s]
                    ELSE LET c == CHOOSE c \in made : TRUE
                         IN  ApplyCallbacks(u.sections[s], cs2[c],
                                            IF c \in DOMAIN cs THEN Len(cs[c].order) ELSE 0)]]

(* handleGenerateAllSections up to its await. *)
handleGenerateAllSections(u) ==
    IF ~u.attached THEN u
    ELSE [u EXCEPT !.pc = "awaiting", !.isGeneratingAll = TRUE,
                   !.sections = [s \in UiSections |-> Blank]]

(* handleCancelGeneration, after its call of cancelGeneration. *)
handleCancelGeneration(u) ==
    IF ~u.attached THEN u
    ELSE [u EXCEPT !.isGeneratingAll = FALSE,
                   !.sections = [s \in UiSections |-> [u.sections[s] EXCEPT !.generating = FALSE]]]

(* setSections(prev => prev.map(section => ({...section, completed: true,  *)
(*     generating: false, content: results[section.id] || section.content, *)
(*     error: ''}))), for one section                                      *)
UpdateWithResults(section, results, s) ==
    [completed |-> TRUE, generating |-> FALSE,
     content |-> IF s \in DOMAIN results /\ results[s] # "" THEN results[s]
                 ELSE section.content,
     error |-> ""]

(***************************************************************************)
(* Initial state: a freshly constructed service instance.                  *)
(***************************************************************************)
NoBatch == [pc |-> "idle", i |-> 0, cur |-> 0, results |-> <<>>]

(* What is left of a finished batch once the next call starts. *)
Returned == [NoBatch EXCEPT !.pc = "returned"]

Init ==
    /\ service \in {"OpenAIService", "DocumentAnalyzerService"}
    /\ enabled \in BOOLEAN
    /\ abortController = 0
    /\ aborted = {}
    /\ calls = <<>>
    /\ batch = NoBatch
    /\ sync = NoSync
    /\ ui = Detached

(* The calls the running batch still has to make. *)
BatchReserve ==
    CASE batch.pc = "idle" -> 0
      [] batch.pc = "running" -> Len(BatchSections) - batch.i
      [] OTHER -> 0

(***************************************************************************)
(* abort() rejects the pending fetch or read at once, so the continuation  *)
(* of the aborted call (its catch and finally) is a microtask: it runs     *)
(* when the handler that aborted reaches its await, before any network or  *)
(* UI event is handled.  The same holds for the continuation of            *)
(* generateMultipleSections once the call it awaits has settled.           *)
(***************************************************************************)
AbortPending == \E c \in CallIds : Waiting(calls[c]) /\ Interrupted(c)

BatchPending == batch.pc = "running" /\ SectionSettled(calls[batch.cur])

NoMicrotask == ~AbortPending /\ ~BatchPending

SetWorld(w) ==
    /\ abortController' = w.h
    /\ aborted' = w.ab
    /\ calls' = w.cs

(***************************************************************************)
(* OpenAIService.generateSection, called directly (the UI's                *)
(* handleGenerateSection): the run up to the first await.                  *)
(***************************************************************************)
GenerateSection(sec, thr) ==
    /\ service = "OpenAIService"
    /\ NoMicrotask
    /\ Len(calls) + BatchReserve < MaxCalls
    /\ SetWorld(GenerateSectionStart(World, sec, 0, thr))
    /\ batch' = IF batch.pc = "done" THEN Returned ELSE batch
    /\ UNCHANGED <<ui, sync, service, enabled>>

(***************************************************************************)
(* The fetch of call c settles without an abort: resp is what the network  *)
(* answered.  The continuation runs up to the first reader.read().         *)
(***************************************************************************)
Responses == {"ok", "http_error", "no_body", "network_error"}

AfterFetch(call, resp, thr) ==
    CASE resp = "network_error" -> CatchGenerate(call, NetworkMsg, thr)
      [] resp = "http_error" -> CatchGenerate(call, ApiErrorMsg, thr)
      [] resp = "no_body" -> CatchGenerate(call, NoBodyMsg, thr)
      [] resp = "ok" -> [call EXCEPT !.pc = "read"]

FinallyKeeps(call, h) == h

(* finally { this.abortController = undefined } once the call has settled *)
Finally(call, h) == IF Settled(call) THEN 0 ELSE h

FetchSettles(c, resp, thr) ==
    /\ calls[c].kind = "generate"
    /\ calls[c].pc = "fetch"
    /\ NoMicrotask
    /\ ~Interrupted(c)
    /\ LET call == AfterFetch(calls[c], resp, thr)
       IN  /\ calls' = [calls EXCEPT ![c] = call]
           /\ abortController' = Finally(call, abortController)
    /\ ui' = Render(ui, calls, calls')
    /\ UNCHANGED <<sync, service, enabled, aborted, batch>>

(* reader.read() of call c delivers one chunk of the body. *)
ReadChunk(c, lines) ==
    /\ calls[c].kind = "generate"
    /\ calls[c].pc = "read"
    /\ NoMicrotask
    /\ ~Interrupted(c)
    /\ calls[c].sent \o FrameText(lines) \in StreamPrefixes
    /\ \E thr \in ThrowsAtRead :
         LET call == AfterRead(calls[c], lines, thr)
         IN  /\ calls' = [calls EXCEPT ![c] = call]
             /\ abortController' = Finally(call, abortController)
    /\ ui' = Render(ui, calls, calls')
    /\ UNCHANGED <<sync, service, enabled, aborted, batch>>

(* reader.read() reports done: the loop breaks and the accumulator is returned. *)
ReadDone(c) ==
    /\ calls[c].kind = "generate"
    /\ calls[c].pc = "read"
    /\ NoMicrotask
    /\ ~Interrupted(c)
    /\ calls' = [calls EXCEPT ![c].pc = "resolved", ![c].result = calls[c].accumulatedContent,
                              ![c].cancelSeen = FALSE]
    /\ abortController' = 0
    /\ UNCHANGED <<ui, sync, service, enabled, aborted, batch>>

(* reader.read() rejects with a network error. *)
ReadFails(c, thr) ==
    /\ calls[c].kind = "generate"
    /\ calls[c].pc = "read"
    /\ NoMicrotask
    /\ ~Interrupted(c)
    /\ calls' = [calls EXCEPT ![c] = CatchGenerate(calls[c], NetworkMsg, thr)]
    /\ abortController' = 0
    /\ ui' = Render(ui, calls, calls')
    /\ UNCHANGED <<sync, service, enabled, aborted, batch>>

(* The pending fetch or read of an aborted generateSection call rejects. *)
AbortDelivered(c, thr) ==
    /\ calls[c].kind = "generate"
    /\ Waiting(calls[c])
    /\ Interrupted(c)
    /\ calls' = [calls EXCEPT ![c] = CatchGenerate(calls[c], AbortMsg, thr)]
    /\ abortController' = 0
    /\ ui' = Render(ui, calls, calls')
    /\ UNCHANGED <<sync, service, enabled, aborted, batch>>

(* reader.read() of call c delivers one line of a stream of many deltas. *)
ReadLongStream(c, line, thr) ==
    /\ calls[c].kind = "generate"
    /\ calls[c].pc = "read"
    /\ NoMicrotask
    /\ ~Interrupted(c)
    /\ calls[c].chunkCount < LongStream
    /\ LET call == AfterRead(calls[c], <<line>>, thr)
       IN  /\ calls' = [calls EXCEPT ![c] = call]
           /\ abortController' = Finally(call, abortController)
    /\ ui' = Render(ui, calls, calls')
    /\ UNCHANGED <<sync, service, enabled, aborted, batch>>

(* The fetch of call c resolves with status 200 and the body w. *)
ResponseArrives(c, w) ==
    /\ calls[c].kind = "generate"
    /\ calls[c].pc = "fetch"
    /\ NoMicrotask
    /\ ~Interrupted(c)
    /\ calls' = [calls EXCEPT ![c] = [AfterFetch(calls[c], "ok", NoThrow) EXCEPT !.wire = w]]
    /\ UNCHANGED <<ui, sync, service, enabled, abortController, aborted, batch>>

(* reader.read() of call c delivers the next n bytes of the body. *)
ReadBytes(c, n, thr) ==
    /\ calls[c].kind = "generate"
    /\ calls[c].pc = "read"
    /\ calls[c].wire > 0
    /\ NoMicrotask
    /\ ~Interrupted(c)
    /\ calls[c].pos + n <= Len(WireBytes(calls[c].wire))
    /\ LET bytes == SubSeq(WireBytes(calls[c].wire), calls[c].pos + 1, calls[c].pos + n)
           call == AfterRead(calls[c], ReadLines(bytes), thr)
       IN  /\ calls' = [calls EXCEPT ![c] = [call EXCEPT !.pos = @ + n,
                                                         !.aligned = @ /\ Last(bytes) = "nl"]]
           /\ abortController' = Finally(call, abortController)
    /\ ui' = Render(ui, calls, calls')
    /\ UNCHANGED <<sync, service, enabled, aborted, batch>>

(* reader.read() reports done once the whole body has been delivered. *)
BodyEnds(c) ==
    /\ calls[c].wire > 0
    /\ calls[c].pos = Len(WireBytes(calls[c].wire))
    /\ ReadDone(c)

(***************************************************************************)
(* OpenAIService.cancelGeneration.                                         *)
(***************************************************************************)
MarkCancel(cs) ==
    [c \in DOMAIN cs |-> IF Waiting(cs[c]) THEN [cs[c] EXCEPT !.cancelSeen = TRUE] ELSE cs[c]]

CancelGeneration ==
    /\ service = "OpenAIService"
    /\ NoMicrotask
    /\ \E c \in CallIds : Waiting(calls[c])
    /\ aborted' = AbortPrevious(World)
    /\ abortController' = 0
    /\ calls' = MarkCancel(calls)
    /\ ui' = handleCancelGeneration(ui)
    /\ UNCHANGED <<sync, service, enabled, batch>>

(***************************************************************************)
(* DocumentAnalyzerService.analyzeDocument and cancelAnalysis.             *)
(***************************************************************************)
AnalyzeDocument(doc, thr) ==
    /\ service = "DocumentAnalyzerService"
    /\ NoMicrotask
    /\ Len(calls) < MaxCalls
    /\ SetWorld(AnalyzeDocumentStart(World, doc, thr))
    /\ UNCHANGED <<ui, sync, service, enabled, batch>>

AnalysisFetchSettles(c, resp, thr) ==
    /\ calls[c].kind = "analyze"
    /\ calls[c].pc = "fetch"
    /\ NoMicrotask
    /\ calls' = [calls EXCEPT ![c] = AnalysisAfterFetch(calls[c], resp, thr)]
    /\ UNCHANGED <<ui, sync, service, enabled, abortController, aborted, batch>>

AnalysisJsonSettles(c, body, thr) ==
    /\ calls[c].kind = "analyze"
    /\ calls[c].pc = "json"
    /\ NoMicrotask
    /\ calls' = [calls EXCEPT ![c] = AnalysisAfterJson(calls[c], body, thr)]
    /\ UNCHANGED <<ui, sync, service, enabled, abortController, aborted, batch>>

(* The pending fetch or response.json() of an aborted analyzeDocument call rejects. *)
AnalysisAbortDelivered(c, thr) ==
    /\ calls[c].kind = "analyze"
    /\ Waiting(calls[c])
    /\ Interrupted(c)
    /\ calls' = [calls EXCEPT ![c] = CatchAnalyze(calls[c], AbortMsg, thr)]
    /\ UNCHANGED <<ui, sync, service, enabled, abortController, aborted, batch>>

CancelAnalysis ==
    /\ service = "DocumentAnalyzerService"
    /\ NoMicrotask
    /\ \E c \in CallIds : Waiting(calls[c])
    /\ aborted' = AbortPrevious(World)
    /\ calls' = MarkCancel(calls)
    /\ UNCHANGED <<ui, sync, service, enabled, abortController, batch>>

(* DocumentAnalyzerService.validateDocumentContent, called by a client. *)
ValidateDocumentContent(content) ==
    /\ service = "DocumentAnalyzerService"
    /\ sync' = [fn |-> "validateDocumentContent", arg |-> content,
                value |-> validateDocumentContent(content)]
    /\ UNCHANGED <<ui, service, enabled, abortController, aborted, calls, batch>>

(***************************************************************************)
(* OpenAIService.generateMultipleSections: the call up to its first await  *)
(* (the first section's generateSection is started), and the continuation  *)
(* once the awaited generateSection has settled (its result is recorded    *)
(* and the next section's generateSection is started, or the batch ends).  *)
(***************************************************************************)
GenerateMultipleSections(thr) ==
    /\ service = "OpenAIService"
    /\ NoMicrotask
    /\ batch.pc = "idle"
    /\ Len(calls) + Len(BatchSections) <= MaxCalls
    /\ SetWorld(GenerateSectionStart(World, BatchSections[1], 1, thr))
    /\ batch' = [pc |-> "running", i |-> 1, cur |-> Len(calls) + 1, results |-> <<>>]
    /\ ui' = Render(handleGenerateAllSections(ui), calls, calls')
    /\ UNCHANGED <<sync, service, enabled>>

BatchContinue(thr) ==
    /\ BatchPending
    /\ ~AbortPending
    /\ LET cur == calls[batch.cur]
           sec == BatchSections[batch.i]
           res == IF cur.pc = "resolved"
                  THEN Put(batch.results, sec, cur.result)
                  ELSE OnSectionError(batch.results, sec, cur.error)
       IN  IF batch.i < Len(BatchSections)
           THEN /\ SetWorld(GenerateSectionStart(World, BatchSections[batch.i + 1],
                                                 batch.i + 1, thr))
                /\ batch' = [pc |-> "running", i |-> batch.i + 1, cur |-> Len(calls) + 1,
                             results |-> res]
           ELSE /\ batch' = [batch EXCEPT !.pc = "done", !.results = res]
                /\ UNCHANGED <<abortController, aborted, calls>>
    /\ ui' = Render(ui, calls, calls')
    /\ UNCHANGED <<sync, service, enabled>>

Next ==
    \/ \E sec \in DirectSections, thr \in ThrowsAtStart : GenerateSection(sec, thr)
    \/ \E c \in CallIds, resp \in Responses, thr \in ThrowsAtCatch : FetchSettles(c, resp, thr)
    \/ \E c \in CallIds, lines \in {<<l>> : l \in Lines} : ReadChunk(c, lines)
    \/ \E c \in CallIds : ReadDone(c)
    \/ \E c \in CallIds, thr \in ThrowsAtCatch : ReadFails(c, thr)
    \/ \E c \in CallIds, thr \in ThrowsAtCatch : AbortDelivered(c, thr)
    \/ CancelGeneration
    \/ \E thr \in ThrowsAtStart : GenerateMultipleSections(thr)
    \/ \E thr \in ThrowsAtStart : BatchContinue(thr)
    \/ \E doc \in SampleDocs, thr \in ThrowsAtStart : AnalyzeDocument(doc, thr)
    \/ \E c \in CallIds, resp \in Responses, thr \in ThrowsAtStart :
            AnalysisFetchSettles(c, resp, thr)
    \/ \E c \in CallIds, body \in SampleBodies, thr \in Throws :
            AnalysisJsonSettles(c, body, thr)
    \/ \E c \in CallIds, thr \in ThrowsAtCatch : AnalysisAbortDelivered(c, thr)
    \/ CancelAnalysis

Spec == Init /\ [][Next]_vars

(***************************************************************************)
(* The event loop runs the microtasks: the continuation of an aborted call *)
(* and the continuation of the batch are not postponed for ever.  Nothing  *)
(* is assumed of the network.                                              *)
(***************************************************************************)
AbortUnwinds ==
    \E c \in CallIds, thr \in ThrowsAtCatch :
        AbortDelivered(c, thr) \/ AnalysisAbortDelivered(c, thr)

BatchResumes == \E thr \in ThrowsAtStart : BatchContinue(thr)

FairSpec == Spec /\ WF_vars(AbortUnwinds) /\ WF_vars(BatchResumes)

(***************************************************************************)
(* generateSection calls made one after the other on an OpenAIService      *)
(* instance, with reads that deliver several lines at once.                *)
(***************************************************************************)
StreamInit == Init /\ service = "OpenAIService"

StreamNext ==
    \/ \E sec \in DirectSections, thr \in ThrowsAtStart :
            (\A c \in CallIds : Settled(calls[c])) /\ GenerateSection(sec, thr)
    \/ \E c \in CallIds, resp \in Responses, thr \in ThrowsAtCatch : FetchSettles(c, resp, thr)
    \/ \E c \in CallIds, lines \in Reads : ReadChunk(c, lines)
    \/ \E c \in CallIds : ReadDone(c)
    \/ \E c \in CallIds, thr \in ThrowsAtCatch : ReadFails(c, thr)
    \/ \E c \in CallIds, thr \in ThrowsAtCatch : AbortDelivered(c, thr)
    \/ CancelGeneration

SpecStream == StreamInit /\ [][StreamNext]_vars

(***************************************************************************)
(* generateSection calls made one after the other whose response bodies    *)
(* arrive as bytes, split into reads at any position.                      *)
(***************************************************************************)
MaxRead == 31

WireNext ==
    \/ \E sec \in DirectSections, thr \in ThrowsAtStart :
            (\A c \in CallIds : Settled(calls[c])) /\ GenerateSection(sec, thr)
    \/ \E c \in CallIds, w \in DOMAIN Wires : ResponseArrives(c, w)
    \/ \E c \in CallIds, n \in 1..MaxRead, thr \in ThrowsAtRead : ReadBytes(c, n, thr)
    \/ \E c \in CallIds : BodyEnds(c)

SpecWire == StreamInit /\ [][WireNext]_vars

(***************************************************************************)
(* One generateMultipleSections call on an OpenAIService instance, with    *)
(* cancelGeneration invoked at any moment and no other call made.          *)
(***************************************************************************)
BatchNext ==
    \/ \E thr \in ThrowsAtStart : GenerateMultipleSections(thr)
    \/ \E thr \in ThrowsAtStart : BatchContinue(thr)
    \/ \E c \in CallIds, resp \in Responses, thr \in ThrowsAtCatch : FetchSettles(c, resp, thr)
    \/ \E c \in CallIds, lines \in {<<l>> : l \in Lines} : ReadChunk(c, lines)
    \/ \E c \in CallIds : ReadDone(c)
    \/ \E c \in CallIds, thr \in ThrowsAtCatch : ReadFails(c, thr)
    \/ \E c \in CallIds, thr \in ThrowsAtCatch : AbortDelivered(c, thr)
    \/ CancelGeneration

SpecBatch == StreamInit /\ [][BatchNext]_vars

FairBatch == SpecBatch /\ WF_vars(AbortUnwinds) /\ WF_vars(BatchResumes)

(***************************************************************************)
(* buildPrompt as generateSection calls it (line 110), for contexts and    *)
(* templates of every shape and every answer of the document index.        *)
(***************************************************************************)
BuildPrompt(sectionType, context, template, relevantContent) ==
    /\ service = "OpenAIService"
    /\ sync' = [fn |-> "buildPrompt",
                arg |-> [sectionType |-> sectionType, context |-> context,
                         template |-> template, relevantContent |-> relevantContent],
                value |-> buildPrompt(sectionType, context, template, relevantContent)]
    /\ UNCHANGED <<ui, service, enabled, abortController, aborted, calls, batch>>

PromptNext ==
    \E sectionType \in DirectSections, context \in Contexts, template \in Templates,
       relevantContent \in Excerpts :
        BuildPrompt(sectionType, context, template, relevantContent)

SpecPrompt == StreamInit /\ [][PromptNext]_vars

(***************************************************************************)
(* Generate All in the ResponseGenerator component.  The continuation of   *)
(* handleGenerateAllSections once generateMultipleSections has returned    *)
(* the results, and the behaviours of a mounted component whose user       *)
(* presses Generate All and Cancel; the callbacks of the component return. *)
(***************************************************************************)
GenerateAllReturns ==
    /\ ui.attached
    /\ ui.pc = "awaiting"
    /\ batch.pc = "done"
    /\ ui' = [ui EXCEPT !.pc = "returned", !.isGeneratingAll = FALSE,
                        !.sections = [s \in UiSections |->
                                         UpdateWithResults(ui.sections[s], batch.results, s)]]
    /\ UNCHANGED <<sync, service, enabled, abortController, aborted, calls, batch>>

UiInit ==
    /\ service = "OpenAIService"
    /\ enabled \in BOOLEAN
    /\ abortController = 0
    /\ aborted = {}
    /\ calls = <<>>
    /\ batch = NoBatch
    /\ sync = NoSync
    /\ ui = Mounted

UiNext ==
    \/ GenerateMultipleSections(NoThrow)
    \/ BatchContinue(NoThrow)
    \/ \E c \in CallIds, resp \in Responses : FetchSettles(c, resp, NoThrow)
    \/ \E c \in CallIds, lines \in {<<l>> : l \in Lines} :
            ReadChunk(c, lines) /\ ~calls'[c].threw
    \/ \E c \in CallIds : ReadDone(c)
    \/ \E c \in CallIds : ReadFails(c, NoThrow)
    \/ \E c \in CallIds : AbortDelivered(c, NoThrow)
    \/ CancelGeneration
    \/ GenerateAllReturns

SpecUi == UiInit /\ [][UiNext]_vars

(***************************************************************************)
(* validateDocumentContent called on document contents of every shape.     *)
(***************************************************************************)
ValidateInit == Init /\ service = "DocumentAnalyzerService"

ValidateNext == \E content \in Docs : ValidateDocumentContent(content)

SpecValidate == ValidateInit /\ [][ValidateNext]_vars

(***************************************************************************)
(* analyzeDocument calls made one after the other, answered with replies   *)
(* of every shape.                                                         *)
(***************************************************************************)
ReplyNext ==
    \/ \E thr \in ThrowsAtStart :
            /\ \A c \in CallIds : Settled(calls[c])
            /\ AnalyzeDocument(<<Run("x", MinContentLength)>>, thr)
    \/ \E c \in CallIds, resp \in Responses, thr \in ThrowsAtStart :
            AnalysisFetchSettles(c, resp, thr)
    \/ \E c \in CallIds, body \in Bodies, thr \in Throws : AnalysisJsonSettles(c, body, thr)

SpecReply == ValidateInit /\ [][ReplyNext]_vars

(***************************************************************************)
(* DocumentAnalyzerService.analyzeDocumentFromFile, with callbacks that    *)
(* return.  extractTextFromFile rejects at once for every type but         *)
(* text/plain: the catch block then runs in the microtask that follows the *)
(* handler, before anything else can happen, and is part of the first      *)
(* step.  For text/plain the FileReader answers later.                     *)
(***************************************************************************)
FileTypes ==
    {"text/plain", "application/pdf",
     "application/vnd.openxmlformats-officedocument.wordprocessingml.document", "image/png"}

ExtractError(type) ==
    CASE type = "application/pdf" -> PdfMsg
      [] type = "application/vnd.openxmlformats-officedocument.wordprocessingml.document" ->
            DocxMsg
      [] OTHER -> UnsupportedMsg

(* catch (error) { onProgress?.({status: 'error', progress: 0, error}); throw error } *)
CatchFile(call, msg) ==
    [call EXCEPT !.events = Append(@, Event("error", 0, None, msg)),
                 !.order = Called(@, "onProgress"),
                 !.pc = "rejected",
                 !.error = msg]

(* The analyzeDocument call an analyzeDocumentFromFile call made. *)
InnerOf(c) == CHOOSE d \in CallIds : calls[d].file = c

FilePending ==
    \E c \in CallIds : /\ calls[c].kind = "file"
                        /\ calls[c].pc = "analyze"
                        /\ Settled(calls[InnerOf(c)])

(* Math.round(10 + progressUpdate.progress * 0.9) *)
AdjustedProgress(progress) == (10 * ExtractedProgress + 9 * progress + 5) \div 10

(* The callback analyzeDocumentFromFile passes to analyzeDocument. *)
Adjust(e) == [e EXCEPT !.progress = AdjustedProgress(@)]

(***************************************************************************)
(* The events the onProgress of the caller of analyzeDocumentFromFile call *)
(* c has received: the two the method emits before it calls                *)
(* analyzeDocument, those of analyzeDocument, adjusted, and the one of the *)
(* catch block.                                                            *)
(***************************************************************************)
Received(c) ==
    LET own == calls[c].events
    IN  IF \E d \in CallIds : calls[d].file = c
        THEN SubSeq(own, 1, 2)
                \o [i \in DOMAIN calls[InnerOf(c)].events |-> Adjust(calls[InnerOf(c)].events[i])]
                \o SubSeq(own, 3, Len(own))
        ELSE own

AnalyzeDocumentFromFile(type) ==
    /\ service = "DocumentAnalyzerService"
    /\ NoMicrotask /\ ~FilePending
    /\ Len(calls) + 2 <= MaxCalls
    /\ LET c0 == [NewCall("file", type, 0) EXCEPT
                      !.events = <<Event("analyzing", 0, None, None)>>,
                      !.order = Called(@, "onProgress")]
       IN  calls' = Append(Earlier(calls),
                           IF type = "text/plain" THEN [c0 EXCEPT !.pc = "extract"]
                           ELSE CatchFile(c0, ExtractError(type)))
    /\ UNCHANGED <<ui, sync, service, enabled, abortController, aborted, batch>>

(* The FileReader of call c reports the text of the file, or an error. *)
ExtractSettles(c, loaded, doc) ==
    /\ calls[c].kind = "file"
    /\ calls[c].pc = "extract"
    /\ NoMicrotask /\ ~FilePending
    /\ IF loaded
       THEN LET c1 == [calls[c] EXCEPT
                          !.events = Append(@, Event("analyzing", ExtractedProgress, None, None)),
                          !.order = Called(@, "onProgress"),
                          !.pc = "analyze", !.doc = doc]
                w == AnalyzeDocumentStart([World EXCEPT !.cs = [calls EXCEPT ![c] = c1]],
                                          doc, NoThrow)
            IN  SetWorld([w EXCEPT !.cs[Len(calls) + 1].file = c])
       ELSE /\ calls' = [calls EXCEPT ![c] = CatchFile(calls[c], ReadFailedMsg)]
            /\ UNCHANGED <<abortController, aborted>>
    /\ UNCHANGED <<ui, sync, service, enabled, batch>>

(* The analyzeDocument call that call c awaits has settled. *)
FileContinue(c) ==
    /\ calls[c].kind = "file"
    /\ calls[c].pc = "analyze"
    /\ ~AbortPending
    /\ Settled(calls[InnerOf(c)])
    /\ LET inner == calls[InnerOf(c)]
       IN  calls' = [calls EXCEPT ![c] =
                        IF inner.pc = "resolved"
                        THEN [@ EXCEPT !.pc = "resolved", !.result = inner.result]
                        ELSE CatchFile(@, inner.error)]
    /\ UNCHANGED <<ui, sync, service, enabled, abortController, aborted, batch>>

FileNext ==
    \/ \E type \in FileTypes :
            (\A c \in CallIds : Settled(calls[c])) /\ AnalyzeDocumentFromFile(type)
    \/ \E c \in CallIds, loaded \in BOOLEAN, doc \in SampleDocs : ExtractSettles(c, loaded, doc)
    \/ \E c \in CallIds, resp \in Responses :
            ~FilePending /\ AnalysisFetchSettles(c, resp, NoThrow)
    \/ \E c \in CallIds, body \in SampleBodies :
            ~FilePending /\ AnalysisJsonSettles(c, body, NoThrow)
    \/ \E c \in CallIds : AnalysisAbortDelivered(c, NoThrow)
    \/ ~FilePending /\ CancelAnalysis
    \/ \E c \in CallIds : FileContinue(c)

SpecFile == ValidateInit /\ [][FileNext]_vars

(***************************************************************************)
(* generateSection calls made one after the other whose streams carry up   *)
(* to LongStream deltas, one line a read, with callbacks that return.      *)
(***************************************************************************)
ProgressNext ==
    \/ \E sec \in DirectSections, thr \in ThrowsAtStart :
            (\A c \in CallIds : Settled(calls[c])) /\ GenerateSection(sec, thr)
    \/ \E c \in CallIds, resp \in Responses, thr \in ThrowsAtCatch : FetchSettles(c, resp, thr)
    \/ \E c \in CallIds, line \in {DataLine("a"), DoneLine} : ReadLongStream(c, line, NoThrow)
    \/ \E c \in CallIds : ReadDone(c)

SpecProgress == StreamInit /\ [][ProgressNext]_vars


(***************************************************************************)
(* Properties.                                                             *)
(***************************************************************************)
GenerateCalls == {c \in CallIds : calls[c].kind = "generate" /\ calls[c].pc # "gone"}

InFlight == {c \in CallIds : Waiting(calls[c]) /\ c \notin aborted}

WithStatus(events, st) == {i \in DOMAIN events : events[i].status = st}

AllSections == {BatchSections[i] : i \in DOMAIN BatchSections}

ErrorMessages ==
    {DisabledMsg, ApiErrorMsg, NoBodyMsg, AbortMsg, NetworkMsg, CallbackMsg}

(* C1: when the server has delivered delta frames and then a [DONE] frame  *)
(* and no callback threw, the call has resolved with the concatenation of  *)
(* the deltas in arrival order, and its last progress event is             *)
(* {completed, 100, that concatenation}.                                   *)
C1_ResolvesWithConcatenation ==
    \A c \in GenerateCalls :
        (calls[c].doneSent /\ ~calls[c].threw) =>
            /\ calls[c].pc = "resolved"
            /\ calls[c].result = calls[c].sent
            /\ Last(calls[c].events) = Event("completed", 100, calls[c].sent, None)

C1_Witness ==
    \E c \in GenerateCalls :
        /\ calls[c].pc = "resolved"
        /\ calls[c].doneSent
        /\ ~calls[c].threw
        /\ calls[c].chunks = StreamDeltas
        /\ calls[c].result = Concat(StreamDeltas)

(* C2: on one service instance at most one request is un-aborted and in    *)
(* flight at any time.                                                     *)
C2_AtMostOneInFlight == Cardinality(InFlight) <= 1

(* C3: once the request of a generateSection call is aborted, the call     *)
(* emits no further generating event, makes no further onChunk call, and   *)
(* its promise settles.                                                    *)
C3_AbortedCallGoesQuiet ==
    /\ [][\A c \in CallIds :
            (calls[c].kind = "generate" /\ Waiting(calls[c]) /\ c \in aborted) =>
                /\ calls'[c].chunks = calls[c].chunks
                /\ WithStatus(calls'[c].events, "generating")
                       = WithStatus(calls[c].events, "generating")]_vars
    /\ \A c \in 1..MaxCalls :
            (c \in CallIds /\ calls[c].kind = "generate" /\ c \in aborted)
                ~> (c \in CallIds /\ Settled(calls[c]))

C3_Witness ==
    \E c, d \in CallIds :
        /\ c < d
        /\ calls[c].pc = "rejected"
        /\ calls[c].error = AbortMsg
        /\ calls[c].chunkCount >= 1
        /\ Last(calls[c].events).status = "error"
        /\ calls[d].pc = "fetch"

(* C4: a generateSection call that is waiting on its fetch or on a read    *)
(* when cancelGeneration is invoked eventually settles.                    *)
C4_CancelSettles ==
    \A c \in 1..MaxCalls :
        (c \in CallIds /\ calls[c].kind = "generate" /\ calls[c].cancelSeen)
            ~> (c \in CallIds /\ Settled(calls[c]))

(* C5: every generateSection call that fails has emitted exactly one error *)
(* progress event {error, 0, message}, as its last event, and rejects with *)
(* that failure.                                                           *)
C5_OneErrorEvent ==
    \A c \in GenerateCalls :
        calls[c].pc = "rejected" =>
            /\ Cardinality(WithStatus(calls[c].events, "error")) = 1
            /\ Last(calls[c].events).status = "error"
            /\ Last(calls[c].events).progress = 0
            /\ (~calls[c].threw => Last(calls[c].events).error = calls[c].error)

(* C6: within one generateSection call no progress event follows an event  *)
(* with status completed or error.                                         *)
C6_TerminalIsLast ==
    \A c \in GenerateCalls :
        \A i \in DOMAIN calls[c].events :
            calls[c].events[i].status \in {"completed", "error"} => i = Len(calls[c].events)

(* C7: with the enableAIGeneration flag off, every generateSection and     *)
(* analyzeDocument call fails at once with the configuration error, no     *)
(* request is issued, no callback is invoked, and the cancellation handle  *)
(* and the abort signals are left as they were.                            *)
C7_DisabledFailsFast ==
    ~enabled =>
        /\ abortController = 0
        /\ aborted = {}
        /\ \A c \in CallIds :
              calls[c].pc # "gone" =>
                  /\ calls[c].pc = "rejected"
                  /\ calls[c].error = DisabledMsg
                  /\ ~calls[c].requested
                  /\ calls[c].events = <<>>

C7_Witness ==
    /\ ~enabled
    /\ Len(calls) >= 2
    /\ calls[Len(calls)].pc = "rejected"
    /\ calls[Len(calls)].error = DisabledMsg
    /\ ~calls[Len(calls)].requested

(* C8: generateMultipleSections is sequential: the generateSection call of *)
(* section i+1 exists (its request issued, its events emitted) only once   *)
(* the call of section i has settled.                                      *)
C8_Sequential ==
    \A c, d \in CallIds :
        (calls[c].bidx > 0 /\ calls[d].bidx = calls[c].bidx + 1) => Settled(calls[c])

C8_Witness ==
    \E c, d \in CallIds :
        /\ calls[c].bidx = 1
        /\ calls[d].bidx = 2
        /\ calls[d].requested
        /\ calls[d].pc = "read"
        /\ calls[d].chunkCount >= 1

(* C9: a failing section never rejects the batch nor keeps later sections  *)
(* from running: each step of the batch records, for the section just      *)
(* awaited, its generated text if it resolved and the placeholder          *)
(* "Error generating content: " + message if it failed, leaves the other   *)
(* slots alone, and goes on to the next section or ends the batch.         *)
C9_FailuresIsolated ==
    /\ [][(batch.pc = "running" /\ batch' # batch) =>
            LET sec == BatchSections[batch.i]
                cur == calls[batch.cur]
            IN  /\ Settled(cur)
                /\ DOMAIN batch'.results = DOMAIN batch.results \cup {sec}
                /\ \A k \in DOMAIN batch.results \ {sec} : batch'.results[k] = batch.results[k]
                /\ cur.pc = "resolved" =>
                      /\ cur.result \in StreamPrefixes
                      /\ batch'.results[sec] = cur.result
                /\ cur.pc = "rejected" =>
                      /\ cur.error \in ErrorMessages
                      /\ batch'.results[sec] = "Error generating content: " \o cur.error
                /\ IF batch.i < Len(BatchSections)
                   THEN /\ batch'.pc = "running"
                        /\ batch'.i = batch.i + 1
                        /\ calls'[batch'.cur].bidx = batch.i + 1
                        /\ calls'[batch'.cur].sec = BatchSections[batch.i + 1]
                   ELSE batch'.pc = "done"]_vars
    /\ [](batch.pc \in {"idle", "running", "done", "returned"})

C9_Witness ==
    /\ batch.pc = "done"
    /\ batch.results["s1"] = "Error generating content: " \o ApiErrorMsg
    /\ batch.results["s2"] = Concat(StreamDeltas)

(* C10: the mapping generateMultipleSections returns has exactly the       *)
(* section ids of the input list as its keys; while the batch runs, the    *)
(* keys are the sections already awaited.                                  *)
C10_KeySet ==
    /\ batch.pc = "done" => DOMAIN batch.results = AllSections
    /\ batch.pc = "running" =>
          DOMAIN batch.results = {BatchSections[i] : i \in 1..(batch.i - 1)}

C10_Witness ==
    /\ batch.pc = "done"
    /\ batch.results["s1"] = "Error generating content: " \o AbortMsg
    /\ batch.results["s2"] = "Error generating content: " \o NetworkMsg

(* What generateSection has done after one read delivered the first p      *)
(* bytes of body w at once.                                                *)
OneRead(w, p) ==
    LET c0 == NewCall("generate", "s1", 0)
        c1 == [c0 EXCEPT !.events = <<Event("generating", 0, None, None)>>, !.pc = "read"]
    IN  AfterRead(c1, ReadLines(SubSeq(WireBytes(w), 1, p)), NoThrow)

(* C11: the deltas passed to onChunk, the accumulated text and the         *)
(* completion of a call do not depend on how the bytes delivered so far    *)
(* were split into reads: they are what one read of the same bytes yields. *)
C11_SplitIndependent ==
    \A c \in GenerateCalls :
        (calls[c].wire > 0 /\ ~calls[c].threw /\ calls[c].pc \in {"read", "resolved"}) =>
            LET one == OneRead(calls[c].wire, calls[c].pos)
            IN  /\ calls[c].chunks = one.chunks
                /\ calls[c].accumulatedContent = one.accumulatedContent
                /\ (calls[c].pc = "resolved") = (one.pc = "resolved")

(* The frames of body w that lie within its first p bytes. *)
DeliveredFrames(w, p) ==
    LET whole == {k \in 0..Len(Wires[w]) :
                     Len(Flatten([i \in 1..k |-> Encode(Wires[w][i])])) <= p}
    IN  SubSeq(Wires[w], 1, CHOOSE k \in whole : \A j \in whole : j <= k)

(* The deltas of the delta-carrying frames up to the first [DONE] frame. *)
RECURSIVE FrameDeltas(_)
FrameDeltas(frames) ==
    IF frames = <<>> \/ Head(frames).kind = "done" THEN <<>>
    ELSE (IF Head(frames).kind = "delta" THEN <<Concat(Head(frames).content)>> ELSE <<>>)
         \o FrameDeltas(Tail(frames))

(* C12: a line that is not a delta-carrying frame is a no-op.  When every  *)
(* read ended at the end of a line and no callback threw, the chunks, the  *)
(* accumulator and the chunk count are those of the delta-carrying frames  *)
(* delivered, whatever other lines lie between them, and there is one      *)
(* generating event per delta after the initial one.                       *)
C12_NonDeltaLinesAreNoOps ==
    \A c \in GenerateCalls :
        (calls[c].wire > 0 /\ calls[c].aligned /\ ~calls[c].threw) =>
            LET deltas == FrameDeltas(DeliveredFrames(calls[c].wire, calls[c].pos))
            IN  /\ calls[c].chunks = deltas
                /\ calls[c].accumulatedContent = Concat(deltas)
                /\ calls[c].chunkCount = Len(deltas)
                /\ Cardinality(WithStatus(calls[c].events, "generating")) = 1 + Len(deltas)
                /\ Cardinality(WithStatus(calls[c].events, "error")) = 0

C12_Witness ==
    \E c \in GenerateCalls :
        /\ calls[c].wire = 2
        /\ calls[c].aligned
        /\ ~calls[c].threw
        /\ calls[c].pc = "resolved"
        /\ calls[c].chunks = <<"a", "b">>
        /\ calls[c].result = "ab"

AnalyzeCalls == {c \in CallIds : calls[c].kind = "analyze" /\ calls[c].pc # "gone"}

(* C13: analyzeDocument validates its input before any network call: a     *)
(* call whose documentContent validateDocumentContent rejects has failed   *)
(* and has issued no request.                                              *)
C13_ValidatesBeforeRequest ==
    \A c \in AnalyzeCalls :
        ~validateDocumentContent(calls[c].doc).isValid =>
            /\ calls[c].pc = "rejected"
            /\ ~calls[c].requested

(* The number of characters from the first to the last non-whitespace one. *)
TrimmedLength(content) ==
    LET solid == {i \in DOMAIN content : content[i].ch # " "}
    IN  IF solid = {} THEN 0
        ELSE Length(SubSeq(content, CHOOSE i \in solid : \A j \in solid : i <= j,
                                    CHOOSE i \in solid : \A j \in solid : j <= i))

(* C16: validateDocumentContent returns invalid for the empty string, for  *)
(* whitespace-only strings and for strings of trimmed length below 50, and *)
(* valid for strings of trimmed length 50 or more: the result is a         *)
(* function of the trimmed length.                                         *)
C16_ValidByTrimmedLength ==
    sync.fn = "validateDocumentContent" =>
        LET t == TrimmedLength(sync.arg)
        IN  /\ t = 0 => sync.value = Validation(FALSE, "Document content is empty")
            /\ (0 < t /\ t < 50) =>
                  sync.value = Validation(FALSE,
                                          "Document content is too short for meaningful analysis")
            /\ t >= 50 => sync.value = Validation(TRUE, None)

C16_Witness ==
    /\ sync.fn = "validateDocumentContent"
    /\ Len(sync.arg) = 3
    /\ sync.arg[1].ch = " "
    /\ TrimmedLength(sync.arg) = 50
    /\ sync.value.isValid

(* The analyzeDocument calls that read a reply with content, with          *)
(* callbacks that returned.                                                *)
RepliedCalls ==
    {c \in AnalyzeCalls :
        calls[c].reply.ok /\ calls[c].reply.content # <<>> /\ ~calls[c].threw}

(* C14: for a reply that is prose, one JSON object, prose, the result of   *)
(* analyzeDocument is the result for that object alone; for a reply in     *)
(* which no "{" is followed by a "}", the call fails with the parse error. *)
C14_ExtractsEmbeddedObject ==
    \A c \in RepliedCalls :
        LET content == calls[c].reply.content
        IN  /\ \A pre \in Prose, obj \in ObjectTexts, post \in Prose :
                  content = pre \o obj \o post =>
                      /\ calls[c].pc = "resolved"
                      /\ calls[c].result = processAnalysis(JsonParse(obj).value)
            /\ (~\E i, j \in DOMAIN content : i < j /\ content[i] = "{" /\ content[j] = "}") =>
                  /\ calls[c].pc = "rejected"
                  /\ calls[c].error = "Document analysis failed: Invalid JSON response from analysis"

IsStr(v) == v.t = "string"

IsNum(v) == v.t = "number"

IsList(v) == v.t = "list"

StrList(v) == IsList(v) /\ \A i \in DOMAIN v.items : IsStr(v.items[i])

(* v is a list of objects that have the given string, number and           *)
(* string-list fields.                                                     *)
Entries(v, strs, nums, lists) ==
    /\ IsList(v)
    /\ \A i \in DOMAIN v.items :
          /\ v.items[i].t = "object"
          /\ \A k \in strs : IsStr(Get(v.items[i], k))
          /\ \A k \in nums : IsNum(Get(v.items[i], k))
          /\ \A k \in lists : StrList(Get(v.items[i], k))

(* Every field of the DocumentAnalysis interface is present in r with a    *)
(* value of its type, down to the fields of the entries of its lists.      *)
Total(r) ==
    LET crm == Get(r, "criticalRequirementsMatrix")
        ec == Get(r, "evaluationCriteria")
        si == Get(r, "strategicIntelligence")
        wt == Get(r, "winThemes")
    IN  /\ Entries(Get(crm, "mandatory"), {"requirement", "complianceMapping"}, {"confidence"}, {})
        /\ Entries(Get(crm, "desired"), {"requirement", "weightScore"}, {"confidence"}, {})
        /\ Entries(Get(crm, "optional"), {"requirement"}, {"confidence"}, {})
        /\ Entries(Get(crm, "hidden"), {"requirement", "evidence"}, {"confidence"}, {})
        /\ IsStr(Get(ec, "scoringMethodology"))
        /\ Entries(Get(ec, "criteria"), {"criterion", "weight", "priority"}, {"confidence"}, {})
        /\ IsStr(Get(ec, "budgetIndicators"))
        /\ Entries(Get(ec, "riskFactors"), {"factor", "severity"}, {"confidence"}, {})
        /\ \A k \in {"incumbentAdvantages", "politicalLandscape", "timelinePressures",
                      "competitiveOpportunities"} : IsStr(Get(si, k))
        /\ IsNum(Get(si, "confidence"))
        /\ \A k \in {"primaryValueDrivers", "painPoints", "keyDifferentiators",
                      "requiredProofPoints"} : StrList(Get(wt, k))
        /\ IsNum(Get(wt, "confidence"))
        /\ Entries(Get(r, "redFlags"), {"flag", "severity", "impact"}, {"confidence"}, {})
        /\ Entries(Get(r, "deadlines"), {"task", "date", "urgency"}, {"daysRemaining"}, {})
        /\ Entries(Get(r, "stakeholders"), {"name", "role", "department", "influence"}, {},
                   {"priorities"})

(* C15: the result of processAnalysis is structurally total for every      *)
(* parsed object, down to the fields of the entries of its lists, and an   *)
(* input without stakeholders yields an empty stakeholders list.           *)
C15_ResultIsTotal ==
    \A c \in RepliedCalls :
        calls[c].pc = "resolved" =>
            /\ Total(calls[c].result)
            /\ Get(JsonParse(JsonMatch(calls[c].reply.content)).value, "stakeholders") = Undefined
                   => Get(calls[c].result, "stakeholders") = JList(<<>>)

(* C17: a callback that throws never aborts a generation: no call is       *)
(* rejected with the exception of a callback, and a call to which the      *)
(* server has delivered the [DONE] frame has resolved with all the text    *)
(* delivered, whatever the callbacks did.                                  *)
C17_CallbackThrowHarmless ==
    \A c \in GenerateCalls :
        /\ calls[c].pc = "rejected" => calls[c].error # CallbackMsg
        /\ calls[c].doneSent =>
              /\ calls[c].pc = "resolved"
              /\ calls[c].result = calls[c].sent

(* C18: once every call made on an instance has settled, the instance      *)
(* holds no cancellation handle.                                           *)
C18_HandleCleared ==
    (calls # <<>> /\ \A c \in CallIds : Settled(calls[c])) => abortController = 0

(* The events that carry content, and those among them that report a delta. *)
WithContent(events) == SelectSeq(events, LAMBDA e : e.content # None)

DeltaEvents(events) == SelectSeq(events, LAMBDA e : e.content # None /\ e.status = "generating")

IsPrefix(s, t) ==
    \E i, j \in 0..Len(StreamDeltas) : s \o Concat(SubSeq(StreamDeltas, i + 1, j)) = t

(* C19: the accumulated content is append-only within a call: the content *)
(* of every event is a prefix of, and no longer than, the content of every *)
(* later event, every content is the concatenation of deltas received so   *)
(* far, and when the callbacks return the content of each delta event is   *)
(* the content of the one before extended by the delta just received.      *)
C19_AppendOnly ==
    \A c \in GenerateCalls :
        LET ev == WithContent(calls[c].events)
            de == DeltaEvents(calls[c].events)
            chunks == calls[c].chunks
        IN  /\ \A i, j \in DOMAIN ev :
                  i <= j => /\ IsPrefix(ev[i].content, ev[j].content)
                            /\ Len(ev[i].content) <= Len(ev[j].content)
            /\ \A k \in DOMAIN de :
                  \E m \in k..Len(chunks) : de[k].content = Concat(SubSeq(chunks, 1, m))
            /\ ~calls[c].threw =>
                  \A k \in DOMAIN de :
                      de[k].content = (IF k = 1 THEN "" ELSE de[k - 1].content) \o chunks[k]

C19_Witness ==
    \E c \in GenerateCalls :
        /\ ~calls[c].threw
        /\ calls[c].pc = "resolved"
        /\ Len(DeltaEvents(calls[c].events)) = 2
        /\ DeltaEvents(calls[c].events)[1].content = "a"
        /\ DeltaEvents(calls[c].events)[2].content = "ab"
        /\ Last(calls[c].events).content = "ab"

(* C20: the generating events of a call carry non-decreasing progress      *)
(* values in 0..95, the event of the k-th delta carries                    *)
(* min(95, floor(100*k/50)), and only a completed event carries 100.       *)
C20_ProgressFormula ==
    \A c \in GenerateCalls :
        LET events == calls[c].events
        IN  \A i \in DOMAIN events :
                /\ events[i].status = "generating" =>
                      /\ events[i].progress \in 0..95
                      /\ \A j \in 1..i :
                            events[j].status = "generating" =>
                                events[j].progress <= events[i].progress
                /\ (events[i].status = "generating" /\ events[i].content # None) =>
                      LET k == Cardinality({j \in 1..i : /\ events[j].status = "generating"
                                                         /\ events[j].content # None})
                      IN  events[i].progress = Min(95, (100 * k) \div 50)
                /\ events[i].progress = 100 => events[i].status = "completed"

(* C21: a call ended by cancelGeneration / cancelAnalysis settles without *)
(* any progress event of status error having been passed to onProgress.    *)
C21_CancelIsNotAnError ==
    [][\A c \in CallIds :
          (/\ calls[c].cancelSeen
           /\ Interrupted(c)
           /\ c \in DOMAIN calls'
           /\ Settled(calls'[c]))
              => WithStatus(calls'[c].events, "error") = {}]_vars

(* C23: a generateSection call whose response has a non-success status or  *)
(* no body rejects with the API error or "No response body received" in    *)
(* the continuation of the fetch: onChunk has not been called, the only    *)
(* events are the initial {generating, 0} and the error event, and the     *)
(* cancellation handle is cleared.                                         *)
C23_FailsBeforeReading ==
    [][\A c \in CallIds :
          (/\ calls[c].kind = "generate"
           /\ calls[c].pc = "fetch"
           /\ c \in DOMAIN calls'
           /\ calls'[c].pc = "rejected"
           /\ Last(calls'[c].events).error \in {ApiErrorMsg, NoBodyMsg})
              => /\ ~calls'[c].threw => calls'[c].error \in {ApiErrorMsg, NoBodyMsg}
                 /\ calls'[c].chunks = <<>>
                 /\ calls'[c].chunkCount = 0
                 /\ calls'[c].events =
                        <<Event("generating", 0, None, None),
                          Event("error", 0, None, Last(calls'[c].events).error)>>
                 /\ abortController' = 0]_vars

C23_Witness ==
    \E c \in GenerateCalls :
        /\ calls[c].pc = "rejected"
        /\ calls[c].error = ApiErrorMsg
        /\ calls[c].requested
        /\ calls[c].chunks = <<>>
        /\ Len(calls[c].events) = 2
        /\ abortController = 0

(* The milestones of an analyzeDocument call that succeeds. *)
Milestones ==
    <<Event("analyzing", 0, None, None), Event("analyzing", 50, None, None),
      Event("analyzing", 90, None, None), Event("completed", ProgressDone, None, None)>>

(* C25: an analyzeDocument call that resolves has emitted (analyzing, 0),  *)
(* (analyzing, 50), (analyzing, 90), (completed, 100); one that rejects    *)
(* has emitted a prefix of the analyzing milestones followed by one        *)
(* (error, 0) event and rejects with "Document analysis failed: " followed *)
(* by that error; progress never decreases before the terminal event.      *)
C25_Milestones ==
    \A c \in AnalyzeCalls :
        LET ev == calls[c].events
        IN  /\ calls[c].pc = "resolved" => ev = Milestones
            /\ calls[c].pc = "rejected" =>
                  \E n \in 0..3 :
                      /\ Len(ev) = n + 1
                      /\ SubSeq(ev, 1, n) = SubSeq(Milestones, 1, n)
                      /\ ev[n + 1].status = "error"
                      /\ ev[n + 1].progress = 0
                      /\ calls[c].error = AnalysisFailedPrefix \o ev[n + 1].error
            /\ \A i, j \in DOMAIN ev :
                  (i <= j /\ ev[j].status # "error") => ev[i].progress <= ev[j].progress

(* C26: while a generateSection call is in flight and has not been         *)
(* aborted, the handle of the instance is that call's controller.          *)
C26_HandleIsLatest ==
    \A c \in CallIds :
        (calls[c].kind = "generate" /\ Waiting(calls[c]) /\ ~Interrupted(c))
            => abortController = c

(* C27: the last progress event of a generateSection call that resolved is *)
(* {completed, 100} with the resolved text as content.                     *)
C27_ResolvedEndsCompleted ==
    \A c \in GenerateCalls :
        calls[c].pc = "resolved" =>
            /\ calls[c].events # <<>>
            /\ Last(calls[c].events) = Event("completed", ProgressDone, calls[c].result, None)

(* C28: every step aborts at most the controller the instance holds; when  *)
(* the section a batch awaits was aborted, the continuation of the batch   *)
(* records the error placeholder in that section's slot and starts the     *)
(* generateSection of the next section, whose request is issued un-aborted *)
(* (unless its first callback throws); and a cancel during the first       *)
(* section is always followed by that continuation.                        *)
C28_CancelDoesNotStopBatch ==
    /\ [][/\ aborted' \subseteq aborted \cup {abortController}
          /\ (/\ batch.pc = "running"
              /\ batch' # batch
              /\ calls[batch.cur].error = AbortMsg)
                 => /\ batch'.results[BatchSections[batch.i]] = PlaceholderPrefix \o AbortMsg
                    /\ IF batch.i < Len(BatchSections)
                       THEN /\ batch'.pc = "running"
                            /\ batch'.i = batch.i + 1
                            /\ batch'.cur \in DOMAIN calls' \ DOMAIN calls
                            /\ calls'[batch'.cur].sec = BatchSections[batch.i + 1]
                            /\ ~calls'[batch'.cur].threw =>
                                  /\ calls'[batch'.cur].requested
                                  /\ calls'[batch'.cur].pc = "fetch"
                                  /\ batch'.cur \notin aborted'
                       ELSE batch'.pc = "done"]_vars
    /\ (batch.pc = "running" /\ batch.i = 1 /\ calls[batch.cur].cancelSeen
            /\ Interrupted(batch.cur))
          ~> (/\ batch.i = 2
              /\ \E m \in {AbortMsg, CallbackMsg} :
                    batch.results = [s \in {"s1"} |-> PlaceholderPrefix \o m])

C28_Witness ==
    /\ batch.pc = "done"
    /\ batch.results["s1"] = PlaceholderPrefix \o AbortMsg
    /\ batch.results["s2"] = "ab"
    /\ \E c \in GenerateCalls : calls[c].bidx = 2 /\ calls[c].requested /\ calls[c].pc = "resolved"

(* C24: the callbacks of a generateSection call are ordered by frame: the  *)
(* first callback is the initial {generating, 0} event; whatever follows   *)
(* the onChunk of a delta is the progress event of that delta, carrying    *)
(* the concatenation of the deltas passed to onChunk so far (if onChunk    *)
(* threw nothing follows for that delta); two chunk callbacks are never    *)
(* adjacent when the callbacks return; and every progress event with       *)
(* content carries the concatenation of the deltas passed to onChunk       *)
(* before it.                                                              *)
C24_CallbackOrder ==
    \A c \in GenerateCalls :
        LET order == calls[c].order
            events == calls[c].events
            chunks == calls[c].chunks
        IN  /\ Len(order) = Len(events) + Len(chunks)
            /\ order # <<>> =>
                  order[1] = "onProgress" /\ events[1] = Event("generating", 0, None, None)
            /\ \A p \in DOMAIN order :
                  LET n == CountOf(order, "onChunk", p)
                      e == CountOf(order, "onProgress", p)
                      sofar == Concat(SubSeq(chunks, 1, n))
                  IN  /\ (order[p] = "onProgress" /\ events[e].content # None) =>
                            events[e].content = sofar
                      /\ (order[p] = "onChunk" /\ p < Len(order) /\ ~calls[c].threw) =>
                            /\ order[p + 1] = "onProgress"
                            /\ events[e + 1] = Event("generating", Progress(n), sofar, None)
                      /\ (order[p] = "onChunk" /\ p = Len(order)) => calls[c].threw

C24_Witness ==
    \E c \in GenerateCalls :
        /\ ~calls[c].threw
        /\ calls[c].chunks = <<"a", "b">>
        /\ calls[c].order = <<"onProgress", "onChunk", "onProgress", "onChunk", "onProgress",
                              "onProgress">>
        /\ calls[c].events[3].content = "ab"
        /\ calls[c].events[4].status = "completed"

(* The headings buildPrompt knows, in the order the contract fixes. *)
Headings ==
    <<"RFP Content:", "Company Profile:", "Key Requirements:", "Constraints:",
      "Target Audience:", "Relevant Company Information:">>

(* The field of the context is present and not empty. *)
Given(v) ==
    CASE v.t = "string" -> v.s # ""
      [] v.t = "list" -> v.items # <<>>
      [] OTHER -> FALSE

(* The headings a prompt for this context and this excerpt has to carry. *)
Wanted(context, excerpt) ==
    {Headings[k] : k \in
        {k \in 1..6 :
            CASE k = 1 -> Given(context.rfpContent)
              [] k = 2 -> Given(context.companyProfile)
              [] k = 3 -> Given(context.requirements)
              [] k = 4 -> Given(context.constraints)
              [] k = 5 -> Given(context.targetAudience)
              [] k = 6 -> Given(context.rfpContent) /\ excerpt # ""}}

(* C22: the prompt buildPrompt returns carries the block of a context      *)
(* field exactly when the field is present and not empty, the block of the *)
(* relevant company information exactly when the RFP content is present    *)
(* and the excerpt of the document index is not empty, each block once,    *)
(* and the blocks in the order RFP content, company profile, requirements, *)
(* constraints, target audience, relevant company information.             *)
C22_BlocksPresentInOrder ==
    sync.fn = "buildPrompt" =>
        LET blocks == sync.value.blocks
            want == Wanted(sync.arg.context, sync.arg.relevantContent)
        IN  /\ {blocks[i].heading : i \in DOMAIN blocks} = want
            /\ Len(blocks) = Cardinality(want)
            /\ \A i, j \in DOMAIN blocks :
                  i < j => \E k, l \in 1..6 : /\ k < l
                                               /\ blocks[i].heading = Headings[k]
                                               /\ blocks[j].heading = Headings[l]

C22_Witness ==
    /\ sync.fn = "buildPrompt"
    /\ Len(sync.value.blocks) = 6
    /\ sync.value.blocks[3].body = "- r1\n- r2"
    /\ sync.value.blocks[6] = [heading |-> "Relevant Company Information:", body |-> "X"]

(* A prompt without the last block although the index returns an excerpt: *)
(* the context carries no RFP content.                                     *)
C22_WitnessNoRfp ==
    /\ sync.fn = "buildPrompt"
    /\ sync.arg.relevantContent = "X"
    /\ Falsy(sync.arg.context.rfpContent)
    /\ Len(sync.value.blocks) = 4

FileCalls == {c \in CallIds : calls[c].kind = "file" /\ calls[c].pc # "gone"}

(* C29: when an analyzeDocumentFromFile call has failed, the onProgress of *)
(* its caller has received exactly one event of status error, as the last  *)
(* event of the call and with progress 0.                                  *)
C29_OneErrorFromFile ==
    \A c \in FileCalls :
        calls[c].pc = "rejected" =>
            LET ev == Received(c)
            IN  /\ Cardinality(WithStatus(ev, "error")) = 1
                /\ Last(ev).status = "error"
                /\ Last(ev).progress = 0

(* C30: once Generate All has finished, a section is marked completed     *)
(* only if the last progress event of its generation was a completed       *)
(* event, and a section whose generation failed is not marked completed,   *)
(* has its error recorded, and does not carry the placeholder string as    *)
(* its content.  (Stated for the sections whose call is still kept.)       *)
C30_FailedSectionNotCompleted ==
    (ui.attached /\ ui.pc = "returned") =>
        \A c \in GenerateCalls :
            calls[c].bidx > 0 =>
                LET section == ui.sections[calls[c].sec]
                IN  /\ section.completed =>
                          /\ calls[c].events # <<>>
                          /\ Last(calls[c].events).status = "completed"
                    /\ calls[c].pc = "rejected" =>
                          /\ ~section.completed
                          /\ section.error # ""
                          /\ section.content # Placeholder(calls[c].error)

====
